---- MODULE Spec2Model ----
(***************************************************************************)
(* Model of camera_base::CameraRosBase (include/camera_base/               *)
(* camera_ros_base.h): the publish-with-diagnostic cycle.                  *)
(*                                                                         *)
(* The object's fields are the variables.  The collaborators it owns are   *)
(* modelled by the effect of the calls the class makes on them:            *)
(*   camera_pub_          the sequence of emitted (image, cinfo) pairs     *)
(*   diagnostic_updater_  its task registry (a vector of named tasks), its *)
(*                        hardware id and the number of update() calls     *)
(*   topic_diagnostic_    the id of the TopicDiagnostic the shared_ptr     *)
(*                        holds; the heap of TopicDiagnostic objects is    *)
(*                        `diags`, indexed by id                           *)
(*   cinfo_mgr_           the CameraInfo it serves                         *)
(* Rates are in units of 0.1 Hz, the window in units of 0.1 s, delays in   *)
(* milliseconds, stamps in seconds.                                        *)
(***************************************************************************)
EXTENDS Integers, Sequences, FiniteSets, TLC

\* ---------------------------------------------------------------- bounds
MaxCalls == 3       \* public operations called after construction

\* ------------------------------------------------------ program constants
DefaultFps == 100          \* fps_(10.0)
DefaultWindow == 100       \* windowSize 10.0
DefaultMinDelay == -10     \* minDelay -0.01
DefaultMaxDelay == 100     \* maxDelay 0.1

\* ------------------------------------------------------------ input sets
Namespaces == {"", "/cam0"}               \* cnh_.getNamespace()
ParamKeys == {"camera_name", "calib_url", "frame_id", "identifier"}
ParamValue(k) ==
    CASE k = "camera_name" -> "cam0"
      [] k = "calib_url"   -> "file:///cam0.yaml"
      [] k = "frame_id"    -> "cam0_optical"
      [] k = "identifier"  -> "serial42"
\* the parameter stores the constructor may find: every key is present in
\* one of them and absent from another
ParamStores == { ParamKeys, {}, {"camera_name", "frame_id"} }
FirstTime == 100                          \* acquisition time of the first frame
HwStamp == 90                             \* a stamp the Grab hook may write
ImageStamps == {103}                      \* stamps of images given to Publish
ImageFrames == {"cam0_optical", "caller_frame"}
GrabFrame == "sensor_optical"             \* a frame_id the Grab hook may write
FpsValues == {200}                        \* set_fps arguments
Bands == { <<45, 55>> }                   \* (minFreq, maxFreq) arguments
Windows == {50}
Delays == { <<-10, 200>> }
HardwareIds == {"hw1"}
SubscriberCounts == {0, 1}                \* subscribers of image_raw
ZeroCalib == 0                            \* K's zero-initialised calibration
LoadedCalib == 1                          \* the calibration K loaded from its url
GrabBody == 2                             \* a calibration the Grab hook may write

\* ------------------------------------------------------------- messages
Header(f, s) == [frame_id |-> f, stamp |-> s]
EmptyHeader == Header("", 0)
\* boost::make_shared<sensor_msgs::Image>()
NewImage == [header |-> EmptyHeader, data |-> 0]

VARIABLES
    ns,                 \* cnh_.getNamespace()
    params,             \* keys present in the camera-scoped parameter store
    cinfo_mgr_,         \* K: [camera_name, url, info]
    fps_, min_fps_, max_fps_,
    frame_id_, identifier_,
    topic_diagnostic_,  \* id of the D the shared_ptr holds, 0 when null
    diags,              \* heap of TopicDiagnostic objects, by id
    tasks,              \* diagnostic_updater_'s registry
    hardware_id,        \* diagnostic_updater_'s hardware id
    updates,            \* number of diagnostic_updater_.update() calls
    published,          \* pairs emitted by camera_pub_
    subscribers,        \* camera_pub_'s subscriber count
    polled,             \* what the latest update() evaluated, task by task
    errors,             \* ROS_ERROR lines logged
    events,             \* order of the calls made on X, D and U
    nframes,            \* PublishCamera / Publish calls so far
    nreconf,            \* SetTopicDiagnosticParameters calls so far
    nsetters,           \* set_fps / SetHardwareId calls so far
    nqueries,           \* getNumSubscribers calls so far
    npublish,           \* Publish calls so far
    ngrabok,            \* PublishCamera calls whose Grab returned true
    band_args,          \* (minFreq, maxFreq) of the latest
                        \* SetTopicDiagnosticParameters call
    last,               \* the last public operation and what it was given
    rpc,                \* where a SetTopicDiagnosticParameters call stands
    rlocal,             \* its arguments and locals
    ppc,                \* where a PublishCamera / Publish call stands
    plocal              \* its locals

vars == << ns, params, cinfo_mgr_, fps_, min_fps_, max_fps_, frame_id_,
           identifier_, topic_diagnostic_, diags, tasks, hardware_id, updates,
           published, subscribers, polled, errors, events, nframes, nreconf,
           nsetters, nqueries, npublish, ngrabok, band_args, last,
           rpc, rlocal, ppc, plocal >>

\* The part of the state the member functions act on, as one record.
Self ==
    [ fps_ |-> fps_, min_fps_ |-> min_fps_, max_fps_ |-> max_fps_,
      topic_diagnostic_ |-> topic_diagnostic_, diags |-> diags,
      tasks |-> tasks, hardware_id |-> hardware_id, updates |-> updates,
      published |-> published, events |-> events,
      cinfo_mgr_ |-> cinfo_mgr_, subscribers |-> subscribers,
      polled |-> polled ]

Commit(w) ==
    /\ fps_' = w.fps_
    /\ min_fps_' = w.min_fps_
    /\ max_fps_' = w.max_fps_
    /\ topic_diagnostic_' = w.topic_diagnostic_
    /\ diags' = w.diags
    /\ tasks' = w.tasks
    /\ hardware_id' = w.hardware_id
    /\ updates' = w.updates
    /\ published' = w.published
    /\ events' = w.events
    /\ cinfo_mgr_' = w.cinfo_mgr_
    /\ subscribers' = w.subscribers
    /\ polled' = w.polled

\* an entry of the call log: a call made on X, D, U or the Grab hook during
\* frame number `call`, or on U's registry during reconfiguration number
\* `call` (0 is the constructor's)
Event(kind, call) == [kind |-> kind, call |-> call]
NamedEvent(kind, call, name) == [kind |-> kind, call |-> call, name |-> name]

\* ------------------------------------------------- SetTopicDiagnosticParameters
\* the name built without the empty-prefix case
TopicName_NoEmptyCheck(prefix) == prefix \o "/image_raw"

\* std::string name = prefix.empty() ? "image_raw" : (prefix + "/image_raw");
TopicName(prefix) == IF prefix = "" THEN "image_raw" ELSE prefix \o "/image_raw"

\* the name the composite task of a TopicDiagnostic carries, and the one
\* removeByName is called with
StatusName(name) == name \o " topic status"

RECURSIVE RemoveFirst(_, _)
RemoveFirst(s, name) ==
    IF s = << >> THEN << >>
    ELSE IF Head(s).name = name THEN Tail(s)
    ELSE << Head(s) >> \o RemoveFirst(Tail(s), name)

\* a reconfiguration that leaves the old registration in place
removeByName_Skip(w, n, call) ==
    [ w EXCEPT !.events = Append(@, NamedEvent("remove", call, n)) ]

\* diagnostic_updater_.removeByName(n): erases the first task named n, if any
removeByName(w, n, call) ==
    [ w EXCEPT !.tasks = RemoveFirst(w.tasks, n),
               !.events = Append(@, NamedEvent("remove", call, n)) ]

\* a D built without registering itself in the updater
NewTopicDiagnostic_NoRegister(w, name, windowSize, minDelay, maxDelay, call) ==
    LET d == [ name |-> name, band |-> "this", window |-> windowSize,
               min_delay |-> minDelay, max_delay |-> maxDelay,
               ticks |-> << >>, alive |-> TRUE ]
    IN  [ w EXCEPT !.diags = Append(@, d),
                   !.events = Append(@, NamedEvent("add", call,
                                                   StatusName(name))) ]

\* new TopicDiagnostic(name, diagnostic_updater_, FrequencyStatusParam(
\*   &min_fps_, &max_fps_, 0.0, windowSize), TimeStampStatusParam(minDelay,
\*   maxDelay)): the fresh object registers itself in the updater under
\* "<name> topic status"; its band is the address of min_fps_/max_fps_
NewTopicDiagnostic(w, name, windowSize, minDelay, maxDelay, call) ==
    LET id == Len(w.diags) + 1
        d  == [ name |-> name, band |-> "this", window |-> windowSize,
                min_delay |-> minDelay, max_delay |-> maxDelay,
                ticks |-> << >>, alive |-> TRUE ]
    IN  [ w EXCEPT !.diags = Append(@, d),
                   !.tasks = Append(@, [name |-> StatusName(name), task |-> id]),
                   !.events = Append(@, NamedEvent("add", call,
                                                   StatusName(name))) ]

\* the pointer left on the object it held (the constructor's first
\* assignment apart)
ResetTopicDiagnostic_KeepOld(w) ==
    IF w.topic_diagnostic_ = 0
    THEN [ w EXCEPT !.topic_diagnostic_ = Len(w.diags) ]
    ELSE [ w EXCEPT !.diags[Len(w.diags)].alive = FALSE ]

\* topic_diagnostic_.reset(p): the pointer takes the newest object and the
\* object it held before, if any, is destroyed
ResetTopicDiagnostic(w) ==
    LET old == w.topic_diagnostic_
        new == Len(w.diags)
    IN  [ w EXCEPT !.topic_diagnostic_ = new,
                   !.diags = IF old = 0 THEN @
                             ELSE [@ EXCEPT ![old].alive = FALSE] ]

\* the old registration removed after the new D was installed
SetTopicDiagnosticParametersBody_RemoveAfter(w, prefix, minFreq, maxFreq, windowSize, minDelay, maxDelay, call) ==
    LET w1 == [ w EXCEPT !.min_fps_ = minFreq, !.max_fps_ = maxFreq ]
        name == TopicName(prefix)
        w2 == NewTopicDiagnostic(w1, name, windowSize, minDelay, maxDelay, call)
        w3 == ResetTopicDiagnostic(w2)
    IN  removeByName(w3, StatusName(name), call)

\* D rebuilt without storing the new band
SetTopicDiagnosticParametersBody_NoBandUpdate(w, prefix, minFreq, maxFreq, windowSize, minDelay, maxDelay, call) ==
    LET name == TopicName(prefix)
        w2 == removeByName(w, StatusName(name), call)
        w3 == NewTopicDiagnostic(w2, name, windowSize, minDelay, maxDelay, call)
    IN  ResetTopicDiagnostic(w3)

SetTopicDiagnosticParametersBody(w, prefix, minFreq, maxFreq, windowSize, minDelay, maxDelay, call) ==
    LET w1 == [ w EXCEPT !.min_fps_ = minFreq, !.max_fps_ = maxFreq ]
        name == TopicName(prefix)
        w2 == removeByName(w1, StatusName(name), call)
        w3 == NewTopicDiagnostic(w2, name, windowSize, minDelay, maxDelay, call)
    IN  ResetTopicDiagnostic(w3)

\* ------------------------------------------------------------ construction
\* a lookup that yields a placeholder instead of the empty value
getParam_Sentinel(store, key) == IF key \in store THEN ParamValue(key) ELSE "unset"

\* getParam<std::string>(cnh_, key): the value, or T{} and one ROS_ERROR
getParam(store, key) == IF key \in store THEN ParamValue(key) ELSE ""
getParamErrors(store, key) == IF key \in store THEN 0 ELSE 1

\* the default argument ignored
param_EmptyDefault(store, key, dflt) == IF key \in store THEN ParamValue(key) ELSE ""

\* cnh_.param<std::string>(key, out, dflt)
param(store, key, dflt) == IF key \in store THEN ParamValue(key) ELSE dflt

\* cinfo_mgr_(cnh_, camera_name, calib_url): K serves the calibration loaded
\* from the url, or a zero-initialised one when there is none to load
CameraInfoManager(name, url) ==
    [ camera_name |-> name, url |-> url,
      info |-> [ header |-> EmptyHeader,
                 body |-> IF url = "" THEN ZeroCalib ELSE LoadedCalib ] ]

\* the members as the initialiser list leaves them, before the body runs;
\* min_fps_ and max_fps_ are not initialised there (any value)
Constructed ==
    [ fps_ |-> DefaultFps, min_fps_ |-> 0, max_fps_ |-> 0,
      topic_diagnostic_ |-> 0, diags |-> << >>, tasks |-> << >>,
      hardware_id |-> "", updates |-> 0, published |-> << >>,
      events |-> << >>, polled |-> << >> ]

ConstructorBody(prefix) ==
    SetTopicDiagnosticParametersBody(Constructed, prefix,
        (DefaultFps * 9) \div 10, (DefaultFps * 11) \div 10,
        DefaultWindow, DefaultMinDelay, DefaultMaxDelay, 0)

Init ==
    /\ ns \in Namespaces
    /\ params \in ParamStores
    /\ cinfo_mgr_ = CameraInfoManager(getParam(params, "camera_name"),
                                      getParam(params, "calib_url"))
    /\ errors = getParamErrors(params, "camera_name")
                  + getParamErrors(params, "calib_url")
    /\ LET w == ConstructorBody(ns)
       IN  /\ fps_ = w.fps_
           /\ min_fps_ = w.min_fps_
           /\ max_fps_ = w.max_fps_
           /\ topic_diagnostic_ = w.topic_diagnostic_
           /\ diags = w.diags
           /\ tasks = w.tasks
           /\ hardware_id = w.hardware_id
           /\ updates = w.updates
           /\ published = w.published
           /\ events = w.events
           /\ polled = w.polled
    /\ subscribers \in SubscriberCounts
    /\ band_args = << (DefaultFps * 9) \div 10, (DefaultFps * 11) \div 10 >>
    /\ nqueries = 0
    /\ npublish = 0
    /\ ngrabok = 0
    /\ frame_id_ = param(params, "frame_id", ns)
    /\ identifier_ = param(params, "identifier", "")
    /\ nframes = 0
    /\ nreconf = 0
    /\ nsetters = 0
    /\ last = [op |-> "CameraRosBase"]
    /\ rpc = "idle"
    /\ rlocal = << >>
    /\ ppc = "idle"
    /\ plocal = << >>

\* public operations called since construction
NCalls == nframes + nreconf + nsetters + nqueries

\* PublishCamera's time argument: the acquisition clock, one second a frame
Times == { FirstTime + nframes }

\* what no member function writes; when every call runs to completion before
\* the next one starts, no call is ever found under way
Fixed ==
    /\ UNCHANGED << ns, params, frame_id_, identifier_, errors >>
    /\ UNCHANGED << rpc, rlocal, ppc, plocal >>

SetTopicDiagnosticParameters(minFreq, maxFreq, windowSize, minDelay, maxDelay) ==
    /\ NCalls < MaxCalls
    /\ Commit(SetTopicDiagnosticParametersBody(Self, ns, minFreq, maxFreq,
                  windowSize, minDelay, maxDelay, nreconf + 1))
    /\ nreconf' = nreconf + 1
    /\ band_args' = << minFreq, maxFreq >>
    /\ last' = [op |-> "SetTopicDiagnosticParameters",
                minFreq |-> minFreq, maxFreq |-> maxFreq]
    /\ UNCHANGED << nframes, nsetters, nqueries, npublish, ngrabok >>
    /\ Fixed

\* a setter that also re-derives the band from the new rate
set_fpsBody_Rederive(w, fps) ==
    [ w EXCEPT !.fps_ = fps, !.min_fps_ = (fps * 9) \div 10,
               !.max_fps_ = (fps * 11) \div 10 ]

\* void set_fps(double fps) { fps_ = fps; }
set_fpsBody(w, fps) == [ w EXCEPT !.fps_ = fps ]

set_fps(fps) ==
    /\ NCalls < MaxCalls
    /\ Commit(set_fpsBody(Self, fps))
    /\ nsetters' = nsetters + 1
    /\ last' = [op |-> "set_fps", fps |-> fps]
    /\ UNCHANGED << nframes, nreconf, nqueries, npublish, ngrabok, band_args >>
    /\ Fixed

\* diagnostic_updater_.setHardwareID(id)
SetHardwareIdBody(w, id) == [ w EXCEPT !.hardware_id = id ]

SetHardwareId(id) ==
    /\ NCalls < MaxCalls
    /\ Commit(SetHardwareIdBody(Self, id))
    /\ nsetters' = nsetters + 1
    /\ last' = [op |-> "SetHardwareId", id |-> id]
    /\ UNCHANGED << nframes, nreconf, nqueries, npublish, ngrabok, band_args >>
    /\ Fixed

\* ------------------------------------------------------------ the Grab hook
\* What a subclass's Grab may do with the two messages it is handed: fill the
\* pixel data, overwrite the image header's stamp and/or frame_id, overwrite
\* the calibration (header included), and return success or failure.
GrabHooks == [ ok : BOOLEAN, hdr : {"keep", "stamp", "frame", "both"},
               cal : BOOLEAN ]

GrabImage(g, image) ==
    [ header |-> Header(IF g.hdr \in {"frame", "both"} THEN GrabFrame
                        ELSE image.header.frame_id,
                        IF g.hdr \in {"stamp", "both"} THEN HwStamp
                        ELSE image.header.stamp),
      data |-> 1 ]

GrabCinfo(g, cinfo) ==
    IF g.cal THEN [header |-> Header("grab_frame", 1), body |-> GrabBody]
    ELSE cinfo

\* ------------------------------------------------------- the frame round
\* the time argument not written into the header
PreStamp_KeepStamp(image, frame_id, time) ==
    [ image EXCEPT !.header.frame_id = frame_id ]

\* image_msg->header.frame_id = frame_id_;  image_msg->header.stamp = time;
PreStamp(image, frame_id, time) ==
    [ image EXCEPT !.header.frame_id = frame_id, !.header.stamp = time ]

\* the caller's frame_id left in place
ForceFrameId_Keep(image, frame_id) == image

\* image_msg->header.frame_id = frame_id_;
ForceFrameId(image, frame_id) == [ image EXCEPT !.header.frame_id = frame_id ]

\* only the stamp copied onto the calibration
CopyHeader_StampOnly(cinfo, image) ==
    [ cinfo EXCEPT !.header.stamp = image.header.stamp ]

\* cinfo_msg->header = image_msg->header;
CopyHeader(cinfo, image) == [ cinfo EXCEPT !.header = image.header ]

\* nothing published when nobody is subscribed
publish_IfSubscribed(w, image, cinfo, call) ==
    IF w.subscribers = 0 THEN w
    ELSE [ w EXCEPT !.published = Append(@, [image |-> image, cinfo |-> cinfo,
                                             call |-> call]),
                    !.events = Append(@, Event("emit", call)) ]

\* camera_pub_.publish(image_msg, cinfo_msg)
publish(w, image, cinfo, call) ==
    [ w EXCEPT !.published = Append(@, [image |-> image, cinfo |-> cinfo,
                                        call |-> call]),
               !.events = Append(@, Event("emit", call)) ]

\* topic_diagnostic_->tick(stamp)
tick(w, stamp, call) ==
    [ w EXCEPT !.diags[w.topic_diagnostic_].ticks = Append(@, stamp),
               !.events = Append(@, Event("tick", call)) ]

\* the band a TopicDiagnostic's frequency status reads when it is run: the
\* values stored where its FrequencyStatusParam points
FrequencyBand(w, d) ==
    IF d.band = "this" THEN << w.min_fps_, w.max_fps_ >> ELSE d.band

\* diagnostic_updater_.update(): runs every registered task
update(w, call) ==
    [ w EXCEPT !.updates = @ + 1,
               !.polled = [ i \in 1..Len(w.tasks) |->
                              [ task |-> w.tasks[i].task,
                                band |-> FrequencyBand(w, w.diags[w.tasks[i].task]) ] ],
               !.events = Append(@, Event("poll", call)) ]

\* the call of the virtual Grab(image_msg, cinfo_msg)
Grab(w, call) == [ w EXCEPT !.events = Append(@, Event("grab", call)) ]

\* the pair published whatever Grab returned
PublishCameraBody_IgnoreGrab(w, frame_id, kinfo, time, g, call) ==
    LET image_msg == GrabImage(g, PreStamp(NewImage, frame_id, time))
        cinfo_msg == CopyHeader(GrabCinfo(g, kinfo), image_msg)
        wp == publish(Grab(w, call), image_msg, cinfo_msg, call)
    IN  update(tick(wp, image_msg.header.stamp, call), call)

\* D ticked with the time argument instead of the image's stamp
PublishCameraBody_TickTime(w, frame_id, kinfo, time, g, call) ==
    LET image_msg == GrabImage(g, PreStamp(NewImage, frame_id, time))
        w0 == Grab(w, call)
        w1 == IF g.ok
              THEN LET cinfo_msg == CopyHeader(GrabCinfo(g, kinfo), image_msg)
                   IN  tick(publish(w0, image_msg, cinfo_msg, call), time, call)
              ELSE w0
    IN  update(w1, call)

\* U polled only when the frame was published
PublishCameraBody_UpdateOnSuccess(w, frame_id, kinfo, time, g, call) ==
    LET image_msg == GrabImage(g, PreStamp(NewImage, frame_id, time))
        w0 == Grab(w, call)
    IN  IF g.ok
        THEN LET cinfo_msg == CopyHeader(GrabCinfo(g, kinfo), image_msg)
                 wp == publish(w0, image_msg, cinfo_msg, call)
             IN  update(tick(wp, image_msg.header.stamp, call), call)
        ELSE w0

\* the calibration header taken from the image before Grab ran
PublishCameraBody_HeaderBeforeGrab(w, frame_id, kinfo, time, g, call) ==
    LET handed    == PreStamp(NewImage, frame_id, time)
        image_msg == GrabImage(g, handed)
        w0 == Grab(w, call)
        w1 == IF g.ok
              THEN LET cinfo_msg == CopyHeader(GrabCinfo(g, kinfo), handed)
                       wp == publish(w0, image_msg, cinfo_msg, call)
                   IN  tick(wp, image_msg.header.stamp, call)
              ELSE w0
    IN  update(w1, call)

\* Grab handed K's own calibration instead of a copy of it
PublishCameraBody_AliasK(w, frame_id, kinfo, time, g, call) ==
    LET image_msg == GrabImage(g, PreStamp(NewImage, frame_id, time))
        grabbed   == GrabCinfo(g, kinfo)
        w0 == [ Grab(w, call) EXCEPT !.cinfo_mgr_.info = grabbed ]
        w1 == IF g.ok
              THEN LET cinfo_msg == CopyHeader(grabbed, image_msg)
                       wp == publish(w0, image_msg, cinfo_msg, call)
                   IN  tick(wp, image_msg.header.stamp, call)
              ELSE w0
    IN  update(w1, call)

PublishCameraBody(w, frame_id, kinfo, time, g, call) ==
    LET image_msg == GrabImage(g, PreStamp(NewImage, frame_id, time))
        grabbed   == GrabCinfo(g, kinfo)
        w0 == Grab(w, call)
        w1 == IF g.ok
              THEN LET cinfo_msg == CopyHeader(grabbed, image_msg)
                       wp == publish(w0, image_msg, cinfo_msg, call)
                   IN  tick(wp, image_msg.header.stamp, call)
              ELSE w0
    IN  update(w1, call)

PublishCamera(time, g) ==
    /\ NCalls < MaxCalls
    /\ Commit(PublishCameraBody(Self, frame_id_, cinfo_mgr_.info, time, g,
                                nframes + 1))
    /\ nframes' = nframes + 1
    /\ last' = [op |-> "PublishCamera", time |-> time, ok |-> g.ok,
                handed |-> PreStamp(NewImage, frame_id_, time),
                image |-> GrabImage(g, PreStamp(NewImage, frame_id_, time)),
                cinfo |-> GrabCinfo(g, cinfo_mgr_.info)]
    /\ ngrabok' = IF g.ok THEN ngrabok + 1 ELSE ngrabok
    /\ UNCHANGED << nreconf, nsetters, nqueries, npublish, band_args >>
    /\ Fixed

\* U polled before the pair is published and D ticked
PublishBody_PollFirst(w, frame_id, kinfo, image, call) ==
    LET image_msg == ForceFrameId(image, frame_id)
        cinfo_msg == CopyHeader(kinfo, image_msg)
        w1 == update(w, call)
        w2 == publish(w1, image_msg, cinfo_msg, call)
    IN  tick(w2, image_msg.header.stamp, call)

\* the pair published without a tick
PublishBody_NoTick(w, frame_id, kinfo, image, call) ==
    LET image_msg == ForceFrameId(image, frame_id)
        cinfo_msg == CopyHeader(kinfo, image_msg)
    IN  update(publish(w, image_msg, cinfo_msg, call), call)

PublishBody(w, frame_id, kinfo, image, call) ==
    LET image_msg == ForceFrameId(image, frame_id)
        cinfo_msg == CopyHeader(kinfo, image_msg)
        w1 == publish(w, image_msg, cinfo_msg, call)
        w2 == tick(w1, image_msg.header.stamp, call)
    IN  update(w2, call)

\* the images a subclass may hand to Publish
CallerImages ==
    { [header |-> Header(f, s), data |-> 1] : f \in ImageFrames, s \in ImageStamps }

Publish(image) ==
    /\ NCalls < MaxCalls
    /\ Commit(PublishBody(Self, frame_id_, cinfo_mgr_.info, image, nframes + 1))
    /\ nframes' = nframes + 1
    /\ last' = [op |-> "Publish", supplied |-> image]
    /\ npublish' = npublish + 1
    /\ UNCHANGED << nreconf, nsetters, nqueries, ngrabok, band_args >>
    /\ Fixed

\* return (camera_pub_.getNumSubscribers());
getNumSubscribersBody(w) == w.subscribers

getNumSubscribers ==
    /\ NCalls < MaxCalls
    /\ nqueries' = nqueries + 1
    /\ last' = [op |-> "getNumSubscribers", result |-> getNumSubscribersBody(Self)]
    /\ Commit(Self)
    /\ UNCHANGED << nframes, nreconf, nsetters, npublish, ngrabok, band_args >>
    /\ Fixed

Next ==
    \/ \E b \in Bands, win \in Windows, dl \in Delays :
          SetTopicDiagnosticParameters(b[1], b[2], win, dl[1], dl[2])
    \/ \E f \in FpsValues : set_fps(f)
    \/ \E id \in HardwareIds : SetHardwareId(id)
    \/ \E t \in Times, g \in GrabHooks : PublishCamera(t, g)
    \/ \E image \in CallerImages : Publish(image)
    \/ getNumSubscribers

Spec == Init /\ [][Next]_vars
\* ------------------------------------------------- unserialized callers
\* One caller reconfigures while another publishes, and the class takes no
\* lock: the statements of SetTopicDiagnosticParameters interleave with those
\* of PublishCamera / Publish.  rpc and ppc are the statement each call has
\* reached.
RaceHooks == { g \in GrabHooks : g.hdr = "keep" /\ ~g.cal }

Untouched == UNCHANGED << ns, params, frame_id_, identifier_, errors,
                          nsetters, nqueries >>
ReconfIdle == UNCHANGED << rpc, rlocal, nreconf, band_args >>
FrameIdle == UNCHANGED << ppc, plocal, nframes, npublish, ngrabok >>

\* min_fps_ = minFreq; max_fps_ = maxFreq; and the name is derived
ReconfAssign(minFreq, maxFreq, windowSize, minDelay, maxDelay) ==
    /\ rpc = "idle"
    /\ nframes + nreconf < MaxCalls
    /\ Commit([ Self EXCEPT !.min_fps_ = minFreq, !.max_fps_ = maxFreq ])
    /\ rpc' = "assigned"
    /\ rlocal' = [ name |-> TopicName(ns), windowSize |-> windowSize,
                   minDelay |-> minDelay, maxDelay |-> maxDelay,
                   call |-> nreconf + 1 ]
    /\ nreconf' = nreconf + 1
    /\ band_args' = << minFreq, maxFreq >>
    /\ last' = [op |-> "SetTopicDiagnosticParameters",
                minFreq |-> minFreq, maxFreq |-> maxFreq]
    /\ FrameIdle
    /\ Untouched

\* diagnostic_updater_.removeByName(name + " topic status");
ReconfRemove ==
    /\ rpc = "assigned"
    /\ Commit(removeByName(Self, StatusName(rlocal.name), rlocal.call))
    /\ rpc' = "removed"
    /\ UNCHANGED << rlocal, nreconf, band_args, last >>
    /\ FrameIdle
    /\ Untouched

\* new diagnostic_updater::TopicDiagnostic(name, diagnostic_updater_, ...)
ReconfBuild ==
    /\ rpc = "removed"
    /\ Commit(NewTopicDiagnostic(Self, rlocal.name, rlocal.windowSize,
                                 rlocal.minDelay, rlocal.maxDelay, rlocal.call))
    /\ rpc' = "built"
    /\ UNCHANGED << rlocal, nreconf, band_args, last >>
    /\ FrameIdle
    /\ Untouched

\* topic_diagnostic_.reset(...)
ReconfReset ==
    /\ rpc = "built"
    /\ Commit(ResetTopicDiagnostic(Self))
    /\ rpc' = "idle"
    /\ rlocal' = << >>
    /\ UNCHANGED << nreconf, band_args, last >>
    /\ FrameIdle
    /\ Untouched

\* PublishCamera up to the return of Grab
FrameGrab(time, g) ==
    /\ ppc = "idle"
    /\ nframes + nreconf < MaxCalls
    /\ Commit(Grab(Self, nframes + 1))
    /\ ppc' = "grabbed"
    /\ plocal' = [ image_msg |-> GrabImage(g, PreStamp(NewImage, frame_id_, time)),
                   cinfo_msg |-> GrabCinfo(g, cinfo_mgr_.info),
                   ok |-> g.ok, call |-> nframes + 1 ]
    /\ nframes' = nframes + 1
    /\ ngrabok' = IF g.ok THEN ngrabok + 1 ELSE ngrabok
    /\ last' = [op |-> "PublishCamera", time |-> time, ok |-> g.ok,
                handed |-> PreStamp(NewImage, frame_id_, time),
                image |-> GrabImage(g, PreStamp(NewImage, frame_id_, time)),
                cinfo |-> GrabCinfo(g, cinfo_mgr_.info)]
    /\ UNCHANGED npublish
    /\ ReconfIdle
    /\ Untouched

\* Publish up to the forced frame_id
FrameForce(image) ==
    /\ ppc = "idle"
    /\ nframes + nreconf < MaxCalls
    /\ Commit(Self)
    /\ ppc' = "grabbed"
    /\ plocal' = [ image_msg |-> ForceFrameId(image, frame_id_),
                   cinfo_msg |-> cinfo_mgr_.info,
                   ok |-> TRUE, call |-> nframes + 1 ]
    /\ nframes' = nframes + 1
    /\ npublish' = npublish + 1
    /\ last' = [op |-> "Publish", supplied |-> image]
    /\ UNCHANGED ngrabok
    /\ ReconfIdle
    /\ Untouched

\* cinfo_msg->header = image_msg->header; camera_pub_.publish(...)
FramePublish ==
    /\ ppc = "grabbed"
    /\ plocal.ok
    /\ Commit(publish(Self, plocal.image_msg,
                      CopyHeader(plocal.cinfo_msg, plocal.image_msg),
                      plocal.call))
    /\ ppc' = "published"
    /\ UNCHANGED << plocal, nframes, npublish, ngrabok, last >>
    /\ ReconfIdle
    /\ Untouched

\* Grab returned false: straight to the update
FrameDrop ==
    /\ ppc = "grabbed"
    /\ ~plocal.ok
    /\ Commit(Self)
    /\ ppc' = "ticked"
    /\ UNCHANGED << plocal, nframes, npublish, ngrabok, last >>
    /\ ReconfIdle
    /\ Untouched

\* topic_diagnostic_->tick(image_msg->header.stamp)
FrameTick ==
    /\ ppc = "published"
    /\ Commit(tick(Self, plocal.image_msg.header.stamp, plocal.call))
    /\ ppc' = "ticked"
    /\ UNCHANGED << plocal, nframes, npublish, ngrabok, last >>
    /\ ReconfIdle
    /\ Untouched

\* diagnostic_updater_.update()
FrameUpdate ==
    /\ ppc = "ticked"
    /\ Commit(update(Self, plocal.call))
    /\ ppc' = "idle"
    /\ plocal' = << >>
    /\ UNCHANGED << nframes, npublish, ngrabok, last >>
    /\ ReconfIdle
    /\ Untouched

NextRace ==
    \/ \E b \in Bands, win \in Windows, dl \in Delays :
          ReconfAssign(b[1], b[2], win, dl[1], dl[2])
    \/ ReconfRemove
    \/ ReconfBuild
    \/ ReconfReset
    \/ \E t \in Times, g \in RaceHooks : FrameGrab(t, g)
    \/ \E image \in CallerImages : FrameForce(image)
    \/ FramePublish
    \/ FrameDrop
    \/ FrameTick
    \/ FrameUpdate

SpecRace == Init /\ [][NextRace]_vars

\* ================================================================ claims

\* C1: every (image, calibration) pair emitted on the publisher, by
\* PublishCamera or by Publish, carries the image's header on the calibration:
\* same frame_id and same stamp.
C1_SharedHeader ==
    \A i \in 1..Len(published) :
        /\ published[i].cinfo.header.frame_id = published[i].image.header.frame_id
        /\ published[i].cinfo.header.stamp = published[i].image.header.stamp

\* a PublishCamera frame whose Grab overwrote the calibration (header
\* included) has been emitted, followed by a Publish frame
C1_Witness ==
    /\ Len(published) = 2
    /\ published[1].cinfo.body = GrabBody
    /\ last.op = "Publish"

\* C2: a PublishCamera call whose Grab returned false emits nothing and ticks
\* no D: the emitted sequence and every D's ticks are the same after the call
\* as before it.
C2_GrabFailureDrops ==
    [][ (nframes' # nframes /\ last'.op = "PublishCamera" /\ ~last'.ok)
        => /\ published' = published
           /\ diags' = diags
           /\ \A i \in 1..Len(events') :
                 events'[i].call = nframes' /\ events'[i].kind \in {"emit", "tick"}
                 => i <= Len(events) ]_vars

\* a failed Grab that had written a stamp, after one frame was emitted
C2_Witness ==
    /\ last.op = "PublishCamera"
    /\ ~last.ok
    /\ last.image.header.stamp = HwStamp
    /\ Len(published) = 1
    /\ nframes = 2

\* C3: a PublishCamera call whose Grab returned true emits exactly one pair
\* and ticks the current D exactly once, with the stamp of the emitted image's
\* header; no other D is ticked.
C3_GrabSuccessEmitsOnce ==
    [][ (nframes' # nframes /\ last'.op = "PublishCamera" /\ last'.ok)
        => /\ Len(published') = Len(published) + 1
           /\ SubSeq(published', 1, Len(published)) = published
           /\ topic_diagnostic_' = topic_diagnostic_
           /\ Len(diags') = Len(diags)
           /\ \A d \in 1..Len(diags) :
                 diags'[d] =
                    IF d = topic_diagnostic_
                    THEN [ diags[d] EXCEPT !.ticks = Append(@,
                             published'[Len(published')].image.header.stamp) ]
                    ELSE diags[d]
           /\ Cardinality({ i \in 1..Len(events') :
                 events'[i].call = nframes' /\ events'[i].kind = "emit" }) = 1
           /\ Cardinality({ i \in 1..Len(events') :
                 events'[i].call = nframes' /\ events'[i].kind = "tick" }) = 1 ]_vars

\* a successful Grab that moved the stamp away from the time argument
C3_Witness ==
    /\ last.op = "PublishCamera"
    /\ last.ok
    /\ last.image.header.stamp # last.time
    /\ diags[topic_diagnostic_].ticks # << >>
    /\ nframes = 1

\* C4: every PublishCamera or Publish call polls U exactly once, whatever
\* Grab returned.
C4_OnePollPerFrame ==
    [][ nframes' # nframes
        => /\ updates' = updates + 1
           /\ Cardinality({ i \in 1..Len(events') :
                 events'[i].call = nframes' /\ events'[i].kind = "poll" }) = 1
           /\ \A i \in 1..Len(events) : events'[i] = events[i] ]_vars

\* two dropped frames in a row, each polled
C4_Witness ==
    /\ last.op = "PublishCamera"
    /\ ~last.ok
    /\ nframes = 2
    /\ published = << >>
    /\ updates = 2

\* C5: after construction and after any number of SetTopicDiagnosticParameters
\* calls, U's registry holds exactly one entry named "<topic> topic status";
\* each call removes the registration under that name before it installs the
\* fresh D, and the constructor's removal finds nothing to remove.
C5_OneRegistration ==
    /\ Cardinality({ i \in 1..Len(tasks) :
          tasks[i].name = StatusName(TopicName(ns)) }) = 1
    /\ \A c \in 0..nreconf :
          \E i, j \in 1..Len(events) :
             /\ i < j
             /\ events[i].kind = "remove" /\ events[i].call = c
             /\ events[j].kind = "add" /\ events[j].call = c
             /\ \A k \in 1..Len(events) :
                   (events[k].kind \in {"remove", "add"} /\ events[k].call = c)
                   => k \in {i, j}
    /\ events[1].kind = "remove"
    /\ events[2].kind = "add"

\* D has been rebuilt after construction: the heap holds the constructor's D
\* and its replacement
C5_Witness ==
    /\ nreconf >= 1
    /\ Len(diags) >= 2
    /\ last.op = "SetTopicDiagnosticParameters"

\* C6: within one frame the emission comes before D's tick and D's tick before
\* U's poll; a frame has no tick without an emission before it and its poll
\* comes after both.
C6_FrameOrder ==
    \A f \in 1..nframes :
       LET at(kind) == { i \in 1..Len(events) :
                           events[i].kind = kind /\ events[i].call = f }
       IN  /\ at("poll") # {}
           /\ \A t \in at("tick") :
                 /\ \E e \in at("emit") : e < t
                 /\ \A u \in at("poll") : t < u
           /\ \A e \in at("emit") :
                 /\ \E t \in at("tick") : e < t
                 /\ \A u \in at("poll") : e < u

\* two frames were emitted, the first by Publish and the second by
\* PublishCamera
C6_Witness ==
    /\ nframes = 2
    /\ Len(published) = 2
    /\ published[1].image.header.stamp \in ImageStamps
    /\ last.op = "PublishCamera"
    /\ last.ok

\* C7: when Grab overwrote the image header's stamp and/or frame_id and
\* returned true, the emitted image and the emitted calibration carry the
\* header as Grab left it, and D was ticked with that stamp.
C7_GrabHeaderWins ==
    ( /\ last.op = "PublishCamera"
      /\ last.ok
      /\ last.image.header # last.handed.header )
    => LET pair == published[Len(published)]
           ticks == diags[topic_diagnostic_].ticks
       IN  /\ pair.image.header = last.image.header
           /\ pair.cinfo.header = last.image.header
           /\ ticks # << >>
           /\ ticks[Len(ticks)] = last.image.header.stamp

\* Grab rewrote both the stamp and the frame_id of the image it was handed
C7_Witness ==
    /\ last.op = "PublishCamera"
    /\ last.ok
    /\ last.handed.header = Header(frame_id_, last.time)
    /\ last.image.header = Header(GrabFrame, HwStamp)
    /\ published[Len(published)].cinfo.header = Header(GrabFrame, HwStamp)

\* C8: Publish(image) emits exactly one pair whose image has the configured
\* frame_id and the supplied stamp and whose calibration is K's with that
\* header, ticks the current D once with that stamp and polls U once; Grab is
\* not called.
C8_PublishFastPath ==
    [][ (nframes' # nframes /\ last'.op = "Publish")
        => LET image == last'.supplied
               hdr == Header(frame_id_, image.header.stamp)
           IN  /\ published' = Append(published,
                     [ image |-> [image EXCEPT !.header = hdr],
                       cinfo |-> [header |-> hdr, body |-> cinfo_mgr_.info.body],
                       call |-> nframes' ])
               /\ diags' = [ diags EXCEPT ![topic_diagnostic_].ticks =
                                             Append(@, image.header.stamp) ]
               /\ updates' = updates + 1
               /\ events' = events \o << Event("emit", nframes'),
                                         Event("tick", nframes'),
                                         Event("poll", nframes') >> ]_vars

\* Publish was given an image whose frame_id differs from the configured one
C8_Witness ==
    /\ last.op = "Publish"
    /\ last.supplied.header.frame_id # frame_id_
    /\ published[Len(published)].image.header.frame_id = frame_id_
    /\ published[Len(published)].image.header.stamp = last.supplied.header.stamp

\* C9: D is registered under "image_raw topic status" when the camera scope's
\* namespace is empty and under "<namespace>/image_raw topic status"
\* otherwise, and every SetTopicDiagnosticParameters call removes and
\* registers under that same name.
C9_DerivedName ==
    LET derived == IF ns = "" THEN "image_raw topic status"
                   ELSE ns \o "/image_raw topic status"
    IN  /\ \A i \in 1..Len(tasks) : tasks[i].name = derived
        /\ \A i \in 1..Len(events) :
              events[i].kind \in {"remove", "add"} => events[i].name = derived

\* a reconfiguration at the empty camera scope
C9_Witness ==
    /\ ns = ""
    /\ nreconf >= 1
    /\ Len(tasks) = 1
    /\ tasks[1].name = "image_raw topic status"

\* C10: set_fps(f) replaces fps with f and changes nothing else: the band, D
\* and U's registry stay as they were.
C10_SetFpsOnlyFps ==
    [][ (nsetters' # nsetters /\ last'.op = "set_fps")
        => /\ fps_' = last'.fps
           /\ UNCHANGED << min_fps_, max_fps_, topic_diagnostic_, diags, tasks,
                           hardware_id, updates, published, events, frame_id_,
                           identifier_, cinfo_mgr_ >> ]_vars

\* after set_fps the rate lies outside the band
C10_Witness ==
    /\ last.op = "set_fps"
    /\ fps_ = last.fps
    /\ (fps_ < min_fps_ \/ fps_ > max_fps_)

\* the ticks delivered so far, summed over every D ever built
RECURSIVE TickCount(_)
TickCount(ds) == IF ds = << >> THEN 0 ELSE Len(Head(ds).ticks) + TickCount(Tail(ds))

\* C11: in every state between public operations, from the end of
\* construction on, the cycle object holds a live D and U's registry holds
\* that D under the derived name.
C11_DAlwaysRegistered ==
    /\ topic_diagnostic_ \in 1..Len(diags)
    /\ diags[topic_diagnostic_].alive
    /\ \E i \in 1..Len(tasks) :
          /\ tasks[i].task = topic_diagnostic_
          /\ tasks[i].name = StatusName(diags[topic_diagnostic_].name)
    /\ \A i \in 1..Len(tasks) : diags[tasks[i].task].alive

\* D was rebuilt and the rebuilt, registered D has been ticked
C11_Witness ==
    /\ nreconf >= 1
    /\ topic_diagnostic_ = 2
    /\ diags[2].ticks # << >>
    /\ tasks = << [name |-> StatusName(TopicName(ns)), task |-> 2] >>

\* C12: a missing camera_name or calib_url is logged as an error and read as
\* the empty string; construction still leaves D registered, and every later
\* PublishCamera / Publish emits, ticks and polls as many times as it does
\* with the parameter present (one poll, and one emission and one tick unless
\* Grab failed).
C12_MissingParamNotFatal ==
    [][ /\ ("camera_name" \notin params) => cinfo_mgr_.camera_name = ""
        /\ ("calib_url" \notin params) => cinfo_mgr_.url = ""
        /\ errors = Cardinality({"camera_name", "calib_url"} \ params)
        /\ topic_diagnostic_' # 0
        /\ \E i \in 1..Len(tasks') : tasks'[i].task = topic_diagnostic_'
        /\ nframes' # nframes
           => LET e == IF last'.op = "Publish" \/ last'.ok THEN 1 ELSE 0
              IN  /\ Len(published') = Len(published) + e
                  /\ TickCount(diags') = TickCount(diags) + e
                  /\ updates' = updates + 1 ]_vars

\* calib_url is missing (one error logged) and two frames went through, one
\* of them emitted
C12_Witness ==
    /\ "calib_url" \notin params
    /\ "camera_name" \in params
    /\ errors = 1
    /\ cinfo_mgr_.url = ""
    /\ nframes = 2
    /\ Len(published) = 1
    /\ updates = 2

\* C13: with zero subscribers a frame is emitted, ticked and polled all the
\* same, and getNumSubscribers returns the publisher's count and changes no
\* state.
C13_SubscribersIrrelevant ==
    [][ /\ (nframes' # nframes /\ subscribers = 0)
           => LET e == IF last'.op = "Publish" \/ last'.ok THEN 1 ELSE 0
              IN  /\ Len(published') = Len(published) + e
                  /\ TickCount(diags') = TickCount(diags) + e
                  /\ updates' = updates + 1
        /\ nqueries' # nqueries
           => /\ last'.result = subscribers
              /\ UNCHANGED << ns, params, cinfo_mgr_, fps_, min_fps_, max_fps_,
                              frame_id_, identifier_, topic_diagnostic_, diags,
                              tasks, hardware_id, updates, published,
                              subscribers, polled, errors, events >> ]_vars

\* nobody is subscribed, a frame was emitted and the count was then read as 0
C13_Witness ==
    /\ subscribers = 0
    /\ last.op = "getNumSubscribers"
    /\ last.result = 0
    /\ Len(published) >= 1
    /\ diags[topic_diagnostic_].ticks # << >>

\* C14: the band stored in the cycle object is the one given to the latest
\* SetTopicDiagnosticParameters call, D reads its band from that storage, and
\* every poll evaluates the registered D against it.
C14_BandObserved ==
    [][ /\ min_fps_' = band_args'[1]
        /\ max_fps_' = band_args'[2]
        /\ diags'[topic_diagnostic_'].band = "this"
        /\ nreconf' # nreconf => band_args' = << last'.minFreq, last'.maxFreq >>
        /\ nframes' # nframes
           => polled' = << [task |-> topic_diagnostic_, band |-> band_args] >> ]_vars

\* a poll after a reconfiguration evaluated the rebuilt D against a band
\* other than the constructor's
C14_Witness ==
    /\ nreconf >= 1
    /\ last.op \in {"PublishCamera", "Publish"}
    /\ polled # << >>
    /\ polled[1].task = 2
    /\ polled[1].band = << 45, 55 >>

\* C15: right after construction fps is 10, the band is [9, 11] (so
\* 0 < min_fps <= fps <= max_fps), frame_id is the configured value or else
\* the camera scope's namespace, and identifier is the configured value or
\* else empty.
C15_ConstructedDefaults ==
    NCalls = 0
    => /\ fps_ = 100
       /\ min_fps_ = 90
       /\ max_fps_ = 110
       /\ 0 < min_fps_ /\ min_fps_ <= fps_ /\ fps_ <= max_fps_
       /\ frame_id_ = IF "frame_id" \in params THEN "cam0_optical" ELSE ns
       /\ identifier_ = IF "identifier" \in params THEN "serial42" ELSE ""

\* constructed at /cam0 with neither frame_id nor identifier configured
C15_Witness ==
    /\ NCalls = 0
    /\ ns = "/cam0"
    /\ "frame_id" \notin params
    /\ frame_id_ = "/cam0"
    /\ identifier_ = ""

\* C16: without serialization the statements of SetTopicDiagnosticParameters
\* interleave with those of a frame: U's registry holds no entry under the
\* derived name exactly while a reconfiguration stands between its removal
\* and the construction of the new D, and one entry otherwise; a poll in that
\* window runs no task and a tick in that window lands on a D that is not
\* registered.
C16_UnserializedWindow ==
    [][ /\ Cardinality({ i \in 1..Len(tasks') :
              tasks'[i].name = StatusName(TopicName(ns)) })
           = IF rpc' = "removed" THEN 0 ELSE 1
        /\ (updates' # updates /\ rpc = "removed") => polled' = << >>
        /\ (TickCount(diags') # TickCount(diags) /\ rpc = "removed")
           => /\ Len(diags'[topic_diagnostic_].ticks)
                    = Len(diags[topic_diagnostic_].ticks) + 1
              /\ \A i \in 1..Len(tasks') : tasks'[i].task # topic_diagnostic_ ]_vars

\* a frame was emitted, the reconfiguration then removed the registration,
\* and before the new D was built the frame ticked D and polled U, which ran
\* no task
C16_Witness ==
    LET n == Len(events)
    IN  /\ rpc = "removed"
        /\ n >= 3
        /\ events[n - 2].kind = "remove"
        /\ events[n - 1].kind = "tick"
        /\ events[n].kind = "poll"
        /\ polled = << >>
        /\ tasks = << >>

\* C17: after any sequence of calls, emissions = ticks summed over every D =
\* Publish calls + PublishCamera calls whose Grab returned true, polls =
\* Publish calls + PublishCamera calls, so emissions = ticks <= polls; the
\* emitted pairs are in call order.
C17_Counters ==
    LET grabs == Cardinality({ i \in 1..Len(events) : events[i].kind = "grab" })
    IN  /\ Len(published) = npublish + ngrabok
        /\ TickCount(diags) = npublish + ngrabok
        /\ updates = npublish + grabs
        /\ nframes = npublish + grabs
        /\ Len(published) <= updates
        /\ \A i, j \in 1..Len(published) :
              i < j => published[i].call < published[j].call

\* a dropped frame and a Publish frame around a reconfiguration: one
\* emission, one tick, two polls
C17_Witness ==
    /\ nreconf = 1
    /\ nframes = 2
    /\ npublish = 1
    /\ ngrabok = 0
    /\ Len(published) = 1
    /\ updates = 2

\* C18: no operation changes the configured frame_id or identifier, and every
\* PublishCamera call hands Grab an image stamped with the configured
\* frame_id and that call's time argument, whatever Grab wrote in earlier
\* frames.
C18_FrameIdFixed ==
    [][ /\ frame_id_' = frame_id_
        /\ identifier_' = identifier_
        /\ (nframes' # nframes /\ last'.op = "PublishCamera")
           => /\ last'.time = FirstTime + nframes
              /\ last'.handed.header = Header(frame_id_, last'.time)
              /\ (last'.ok /\ last'.image.header = last'.handed.header)
                 => published'[Len(published')].image.header
                       = Header(frame_id_, last'.time) ]_vars

\* the first frame's Grab rewrote frame_id and stamp; the second
\* PublishCamera call handed Grab the configured frame_id and its own time
C18_Witness ==
    /\ nframes = 2
    /\ Len(published) >= 1
    /\ published[1].image.header = Header(GrabFrame, HwStamp)
    /\ last.op = "PublishCamera"
    /\ last.handed.header = Header(frame_id_, FirstTime + 1)

\* C19: a frame works on a copy of K's calibration: K is never changed, and
\* the emitted calibration is K's as that frame's Grab left it (K's own for
\* Publish), with the image header on it.
C19_CalibrationSnapshot ==
    [][ /\ cinfo_mgr_' = cinfo_mgr_
        /\ cinfo_mgr_.info.body \in {ZeroCalib, LoadedCalib}
        /\ (nframes' # nframes /\ last'.op = "PublishCamera")
           => last'.cinfo.body \in {cinfo_mgr_.info.body, GrabBody}
        /\ (nframes' # nframes /\ Len(published') > Len(published))
           => LET pair == published'[Len(published')]
              IN  /\ pair.cinfo.header = pair.image.header
                  /\ pair.cinfo.body =
                        IF last'.op = "PublishCamera" THEN last'.cinfo.body
                        ELSE cinfo_mgr_.info.body ]_vars

\* Grab overwrote the calibration in an emitted frame and again in a dropped
\* one, and K still serves its own
C19_Witness ==
    /\ Len(published) = 1
    /\ published[1].cinfo.body = GrabBody
    /\ last.op = "PublishCamera"
    /\ ~last.ok
    /\ last.cinfo.body = GrabBody
    /\ cinfo_mgr_.info.body # GrabBody

\* C20: SetTopicDiagnosticParameters installs a fresh D without ticks and
\* drops the previous one from the cycle object and from U's registry; the
\* previous D keeps the ticks it had and later ticks go to the current D only.
C20_DReplaced ==
    [][ /\ nreconf' # nreconf
           => LET old == topic_diagnostic_
                  new == topic_diagnostic_'
              IN  /\ new # old
                  /\ Len(diags') = Len(diags) + 1
                  /\ new = Len(diags')
                  /\ diags'[new].ticks = << >>
                  /\ diags'[new].alive
                  /\ ~diags'[old].alive
                  /\ diags'[old].ticks = diags[old].ticks
                  /\ \A i \in 1..Len(tasks') : tasks'[i].task # old
        /\ nframes' # nframes
           => /\ Len(diags') = Len(diags)
              /\ \A d \in 1..Len(diags) :
                    d # topic_diagnostic_ => diags'[d] = diags[d] ]_vars

\* the constructor's D was ticked, then replaced, then the new D was ticked
C20_Witness ==
    /\ topic_diagnostic_ = 2
    /\ ~diags[1].alive
    /\ diags[1].ticks # << >>
    /\ diags[2].ticks # << >>
    /\ Len(diags[1].ticks) + Len(diags[2].ticks) = 2
====
